---------------------------- MODULE Spec2Model ----------------------------
(***************************************************************************)
(* A model of the tornado chart visual                                     *)
(* (src/Clients/Visuals/visuals/samples/tornadoChart.ts).                  *)
(*                                                                         *)
(* The state is the TornadoChart object's fields and the part of the DOM   *)
(* it owns: the column, label, axis and category elements with the datum   *)
(* bound to each, their fill-opacity style and the opacity transition      *)
(* scheduled on them.  The operations are update(), the click handler of   *)
(* a column, the click handler of the document, and the two steps of a     *)
(* scheduled transition.                                                   *)
(*                                                                         *)
(* Numbers that the code divides are exact rationals <<n, d>> (d > 0, in   *)
(* lowest terms); <<s, 0>> stands for the non-finite results of a division *)
(* by zero.  The rounding of IEEE doubles is not modelled.                 *)
(* Indexes are 1-based here and 0-based in the source.                     *)
(***************************************************************************)
EXTENDS Integers, Sequences, FiniteSets, TLC

\* ------------------------------------------------------------- bounds ----
\* The largest number of categories of a data view.
MaxCategories == 2
\* Series values are drawn from -MaxValue .. MaxValue in SpecLayout.
MaxValue == 2
\* The largest number of value columns the host sends (more than MaxSeries).
MaxValueColumns == 3

\* ------------------------------------------------- program constants ----
MaxSeries == 2
MaxSizeSections == 100
columnPadding == 10
maxLabelWidth == 55
leftLabelMargin == 4
InnerTextHeightDelta == 2
MarginTop == 10
MarginRight == 10
MarginBottom == 10
MarginLeft == 10
\* Opacities are in percent: MinOpacity 0, MinColumnOpacity 0.2, MaxOpacity 1.
MinOpacity == 0
MinColumnOpacity == 20
MaxOpacity == 100
\* The initial value of the durationAnimations field.
InitialDuration == 200

\* ------------------------------------------------------ option values ----
\* null / undefined is the empty sequence, a value x is <<x>>.
Null == << >>
Some(x) == << x >>

\* ------------------------------------------------- rational arithmetic ----
Abs(i) == IF i < 0 THEN -i ELSE i
Sign(i) == IF i < 0 THEN -1 ELSE IF i = 0 THEN 0 ELSE 1

RECURSIVE GCD(_, _)
GCD(a, b) == IF b = 0 THEN a ELSE GCD(b, a % b)

\* n / d in lowest terms; a division by zero gives Infinity <<1, 0>>,
\* -Infinity <<-1, 0>> or NaN <<0, 0>> as in JavaScript.
Norm(n, d) ==
    IF d = 0 THEN << Sign(n), 0 >>
    ELSE LET g == GCD(Abs(n), Abs(d))
             s == Sign(d)
         IN  << (s * n) \div g, (s * d) \div g >>

R(i) == << i, 1 >>
RAdd(a, b) == Norm(a[1] * b[2] + b[1] * a[2], a[2] * b[2])
RSub(a, b) == Norm(a[1] * b[2] - b[1] * a[2], a[2] * b[2])
RMul(a, b) == Norm(a[1] * b[1], a[2] * b[2])
RDiv(a, b) == Norm(a[1] * b[2], a[2] * b[1])
RLt(a, b) == a[1] * b[2] < b[1] * a[2]
RLe(a, b) == a[1] * b[2] <= b[1] * a[2]
IsFinite(a) == a[2] > 0

Min2(a, b) == IF a < b THEN a ELSE b
Max2(a, b) == IF a > b THEN a ELSE b

\* d3.min / d3.max of a non-empty array of numbers.
RECURSIVE d3min(_)
d3min(s) == IF Len(s) = 1 THEN s[1] ELSE Min2(s[1], d3min(Tail(s)))
RECURSIVE d3max(_)
d3max(s) == IF Len(s) = 1 THEN s[1] ELSE Max2(s[1], d3max(Tail(s)))


\* --------------------------------------------------------------- state ----
VARIABLES
    sections,              \* this.sections: the configured section boundary
    currentSections,       \* this.currentSections
    textOptions,           \* this.textOptions: the font read once by init()
    viewport,              \* this.viewport
    dataView,              \* this.dataView (Null until the first update)
    tornadoChartDataView,  \* this.tornadoChartDataView (Null or Some(model))
    heightColumn,          \* this.heightColumn
    widthLeftSection,      \* this.widthLeftSection
    widthRightSection,     \* this.widthRightSection
    isSelectColumn,        \* this.isSelectColumn
    durationAnimations,    \* this.durationAnimations
    columns,               \* the rect elements of the .columns layer
    labels,                \* the g elements of the .labels layer
    axes,                  \* the line elements of the .axes layer
    categories,            \* the g elements of the .categories layer
    selectSecondSeries,    \* captured by the click handlers of the columns
    visualUpdateOptions,   \* history: the options of the last update that had a data view
    converterCall,         \* history: argument and outcome of the last converter call
    clickedIndex           \* history: 0-based index of the column clicked last,
                           \* -1 when none was clicked since the last reset

vars == << sections, currentSections, textOptions, viewport, dataView,
           tornadoChartDataView, heightColumn, widthLeftSection,
           widthRightSection, isSelectColumn, durationAnimations, columns,
           labels, axes, categories, selectSecondSeries, visualUpdateOptions,
           converterCall, clickedIndex >>

\* No transition is scheduled on an element.
NoTransition == -1

\* ----------------------------------------------------- Data Normalizer ----
DefaultTornadoChartSettings ==
    [ precision |-> 2, showCategories |-> TRUE, showLegend |-> TRUE,
      showLabels |-> TRUE, labelInsideFillColour |-> "#fff",
      labelOutsideFillColour |-> "#777", categoriesFillColour |-> "#777" ]

DefaultFillColors == << "purple", "teal" >>

MinPrecision == 0

getPrecision(objects) ==
    IF objects.precision <= MinPrecision THEN MinPrecision ELSE objects.precision

\* The formatter is the host's; the settings keep the precision it was made with.
parseSettings(objects) ==
    [ precision |-> getPrecision(objects),
      showCategories |-> objects.showCategories,
      showLabels |-> objects.showLabels,
      showLegend |-> objects.showLegend,
      labelInsideFillColour |-> DefaultTornadoChartSettings.labelInsideFillColour,
      labelOutsideFillColour |-> DefaultTornadoChartSettings.labelOutsideFillColour,
      categoriesFillColour |-> DefaultTornadoChartSettings.categoriesFillColour ]

parseSeries(values) ==
    [ index \in 1 .. Len(values) |->
        [ fill |-> DefaultFillColors[index],
          name |-> values[index].displayName,
          values |-> values[index].values ] ]

\* A raised TypeError is [threw |-> TRUE]; otherwise value is what is returned.
Returned(v) == [ threw |-> FALSE, value |-> v ]
Threw == [ threw |-> TRUE, value |-> Null ]

\* dv is Null (no data view) or Some(d), d the host's data view:
\*   d.hasCategorical          dataView.categorical is present
\*   d.categories              "absent", "empty" ([]) or "present" ([column])
\*   d.hasSource               categories[0].source is present
\*   d.categoryValues          categories[0].values
\*   d.values                  "absent" or "present" (d.columns, possibly [])
\*   d.objects                 the settings of metadata.objects, defaults filled in
converter(dv) ==
    IF \/ dv = Null
       \/ ~ dv[1].hasCategorical
       \/ dv[1].categories # "present"
       \/ ~ dv[1].hasSource
       \/ dv[1].values # "present"
    THEN Returned(Null)
    ELSE LET d == dv[1]
             values == SubSeq(d.columns, 1, Min2(Len(d.columns), MaxSeries))
         IN  IF Len(values) = 0
             THEN Threw     \* values[0].values[0]: values[0] is undefined
             ELSE Returned(Some([ categories |-> d.categoryValues,
                                  series |-> parseSeries(values),
                                  settings |-> parseSettings(d.objects) ]))

\* ------------------------------------------------------- Section Sizer ----
\* A variant that takes the host's viewport without the margins.
setSizeNoMargin(vp) == [ height |-> vp.height, width |-> vp.width ]

setSize(vp) ==
    [ height |-> vp.height - MarginTop - MarginBottom,
      width |-> vp.width - MarginLeft - MarginRight ]

getValueByPercent(percent, maxValue, isPercent) ==
    IF isPercent THEN RDiv(R(percent * maxValue), R(100)) ELSE R(percent)

\* A variant that takes the right section from the constructor's options when
\* they give one.
updateSectionsConfiguredRight(model, secs, cur, vp) ==
    IF model = Null
    THEN cur
    ELSE LET left == IF model[1].settings.showCategories THEN secs.left ELSE 0
         IN  [ left |-> left,
               right |-> IF secs.right # 0
                         THEN secs.right
                         ELSE IF cur.isPercent
                              THEN MaxSizeSections - left
                              ELSE vp.width - left,
               isPercent |-> cur.isPercent ]

\* A variant that keeps the left section whatever showCategories is.
updateSectionsKeepLeft(model, secs, cur, vp) ==
    IF model = Null
    THEN cur
    ELSE [ left |-> secs.left,
           right |-> IF cur.isPercent
                     THEN MaxSizeSections - secs.left
                     ELSE vp.width - secs.left,
           isPercent |-> cur.isPercent ]

\* currentSections after updateSections(dataView) with this.sections = secs,
\* this.currentSections = cur and this.viewport = vp.
updateSections(model, secs, cur, vp) ==
    IF model = Null
    THEN cur
    ELSE LET left == IF model[1].settings.showCategories THEN secs.left ELSE 0
         IN  [ left |-> left,
               right |-> IF cur.isPercent
                         THEN MaxSizeSections - left
                         ELSE vp.width - left,
               isPercent |-> cur.isPercent ]

\* A variant that counts a gap after every row, the last one included.
computeHeightColumnGapPerRow(model, vp) ==
    LET length == Len(model.categories)
    IN  RDiv(R(vp.height - length * columnPadding), R(length))

computeHeightColumn(model, vp) ==
    LET length == Len(model.categories)
    IN  RDiv(R(vp.height - (length - 1) * columnPadding), R(length))

\* ------------------------------------------- text measurement service ----
\* The formatter and the measurement service are the host's.  A formatted
\* value is the number of its characters; every character is
\* textOptions.charWidth wide and every text textOptions.height high.
RECURSIVE Digits(_)
Digits(n) == IF n < 10 THEN 1 ELSE 1 + Digits(n \div 10)

format(value, precision) ==
    (IF value < 0 THEN 1 ELSE 0) + Digits(Abs(value))
        + (IF precision > 0 THEN 1 + precision ELSE 0)

measureSvgTextWidth(chars, font) == font.charWidth * chars

getTailoredTextOrDefault(chars, maxWidth, font) ==
    IF measureSvgTextWidth(chars, font) <= maxWidth
    THEN chars
    ELSE maxWidth \div font.charWidth

\* ------------------------------------------------ Label Placement Engine ----
\* A variant that puts every outside label to the right of its bar.
labelDxAlwaysRight(dxColumn, columnWidth, textWidth, isColumnPositionLeft) ==
    IF RLt(textWidth, columnWidth)
    THEN RSub(RAdd(dxColumn, RDiv(columnWidth, R(2))), RDiv(textWidth, R(2)))
    ELSE RAdd(RAdd(dxColumn, columnWidth), R(leftLabelMargin))

\* The dx getLabelData computes: inside the column when it is wider than the
\* text, else beside it.
labelDx(dxColumn, columnWidth, textWidth, isColumnPositionLeft) ==
    IF RLt(textWidth, columnWidth)
    THEN RSub(RAdd(dxColumn, RDiv(columnWidth, R(2))), RDiv(textWidth, R(2)))
    ELSE IF isColumnPositionLeft
         THEN RSub(RSub(dxColumn, R(leftLabelMargin)), textWidth)
         ELSE RAdd(RAdd(dxColumn, columnWidth), R(leftLabelMargin))

getLabelData(value, xColumn, yColumn, dxColumn, dyColumn, columnWidth, isColumnPositionLeft, settings, hColumn, font) ==
    LET textHeight == font.height
        valueAfterValueFormatter ==
            getTailoredTextOrDefault(format(value, settings.precision),
                                     maxLabelWidth, font)
        textWidth == R(measureSvgTextWidth(valueAfterValueFormatter, font))
        inside == RLt(textWidth, columnWidth)
        dx == labelDx(dxColumn, columnWidth, textWidth, isColumnPositionLeft)
    IN  [ x |-> xColumn,
          y |-> yColumn,
          dx |-> dx,
          dy |-> RSub(RAdd(RAdd(dyColumn, RDiv(hColumn, R(2))),
                           RDiv(R(textHeight), R(2))),
                      R(InnerTextHeightDelta)),
          source |-> value,
          value |-> [ of |-> value, chars |-> valueAfterValueFormatter ],
          colour |-> IF inside THEN settings.labelInsideFillColour
                     ELSE settings.labelOutsideFillColour,
          height |-> textHeight,
          width |-> textWidth ]

\* ------------------------------------------------- Column Layout Engine ----
\* A variant that gives no width to a bar when all values coincide.
getColumnWidthZeroWhenFlat(value, minValue, maxValue, width) ==
    IF minValue = maxValue
    THEN R(0)
    ELSE RDiv(RMul(width, R(value - minValue)), R(maxValue - minValue))

getColumnWidth(value, minValue, maxValue, width) ==
    IF minValue = maxValue
    THEN width
    ELSE RDiv(RMul(width, R(value - minValue)), R(maxValue - minValue))

\* index is the 0-based category index.  minValue and maxValue are kept in
\* the datum as history: the source passes them and does not store them.
generateColumnData(value, minValue, maxValue, width, shiftToMiddle, shiftToRight, color, index, categoryValue, seriesName, settings, hColumn, font) ==
    LET widthOfColumn == getColumnWidth(value, minValue, maxValue, width)
        shift == RSub(width, widthOfColumn)
        dx == RAdd(IF shiftToMiddle THEN shift ELSE R(0),
                   IF shiftToRight THEN width ELSE R(0))
        dy == RMul(RAdd(hColumn, R(columnPadding)), R(index))
        label == getLabelData(value, 0, 0, dx, dy, widthOfColumn,
                              shiftToMiddle, settings, hColumn, font)
    IN  [ x |-> 0,
          y |-> 0,
          dx |-> dx,
          dy |-> dy,
          px |-> RDiv(widthOfColumn, R(2)),
          py |-> RDiv(hColumn, R(2)),
          angle |-> IF shiftToMiddle THEN 180 ELSE 0,
          width |-> widthOfColumn,
          height |-> hColumn,
          label |-> label,
          color |-> color,
          tooltipData |-> [ category |-> categoryValue, series |-> seriesName,
                            value |-> label.value ],
          minValue |-> minValue,
          maxValue |-> maxValue ]

\* A variant that leaves the bars of the first of two series at the left edge
\* of their region.
generateColumnDataByValuesUnshifted(tornadoChartSeries, minValue, maxValue, maxWidth, shiftToRight, shiftToMiddle, categoryValues, settings, hColumn, font) ==
    [ i \in 1 .. Len(tornadoChartSeries.values) |->
        generateColumnData(tornadoChartSeries.values[i], minValue, maxValue,
                           maxWidth, FALSE, shiftToRight,
                           tornadoChartSeries.fill, i - 1, categoryValues[i],
                           tornadoChartSeries.name, settings, hColumn, font) ]

generateColumnDataByValues(tornadoChartSeries, minValue, maxValue, maxWidth, shiftToRight, shiftToMiddle, categoryValues, settings, hColumn, font) ==
    [ i \in 1 .. Len(tornadoChartSeries.values) |->
        generateColumnData(tornadoChartSeries.values[i], minValue, maxValue,
                           maxWidth, shiftToMiddle, shiftToRight,
                           tornadoChartSeries.fill, i - 1, categoryValues[i],
                           tornadoChartSeries.name, settings, hColumn, font) ]

\* A variant that takes the least value from the first series alone.
minValueOfFirstSeries(series) ==
    Min2(d3min(series[1].values), 0)

\* minValue and maxValue are read only when a series has a value: with no
\* category the source computes NaN here and generates no column.
minValueOf(series) ==
    LET minValue == Min2(d3min(series[1].values), 0)
    IN  IF Len(series) = MaxSeries
        THEN d3min(<< minValue, d3min(series[2].values) >>)
        ELSE minValue

maxValueOf(series) ==
    LET maxValue == d3max(series[1].values)
    IN  IF Len(series) = MaxSeries
        THEN d3max(<< maxValue, d3max(series[2].values) >>)
        ELSE maxValue

\* A variant that gives each of two series the whole right section.
regionWidthOfWhole(series, wRight) == wRight

regionWidthOf(series, wRight) ==
    IF Len(series) = MaxSeries THEN RDiv(wRight, R(MaxSeries)) ELSE wRight

RECURSIVE concatAll(_)
concatAll(ss) == IF Len(ss) = 0 THEN << >> ELSE Head(ss) \o concatAll(Tail(ss))

generateColumnDataBySeries(model, wRight, hColumn, font) ==
    LET series == model.series
        width == regionWidthOf(series, wRight)
    IN  IF Len(series) = 0
        THEN << >>
        ELSE concatAll(
               [ index \in 1 .. Len(series) |->
                   generateColumnDataByValues(
                       series[index], minValueOf(series), maxValueOf(series),
                       width,
                       index - 1 = 1,
                       index - 1 = 0 /\ Len(series) = MaxSeries,
                       model.categories, model.settings, hColumn, font) ])

\* ------------------------------------------------------------ rendering ----
\* An element of the columns and labels layers is its bound datum, its
\* fill-opacity style and the value the transition scheduled on it leads to
\* (NoTransition when there is none).  An element without the style is opaque.
animated(duration) == duration # 0

\* A variant whose data join leaves the datum of an element it keeps.
renderColumnsKeepDatum(columnsData, old, duration) ==
    [ k \in 1 .. Len(columnsData) |->
        IF k <= Len(old)
        THEN old[k]
        ELSE [ datum |-> columnsData[k],
               opacity |-> MaxOpacity,
               pending |-> NoTransition ] ]

\* A variant that renders every column opaque again.
renderColumnsResetOpacity(columnsData, old, duration) ==
    [ k \in 1 .. Len(columnsData) |->
        [ datum |-> columnsData[k],
          opacity |-> MaxOpacity,
          pending |-> NoTransition ] ]

\* renderColumns: the data join keeps the elements in place, appends the
\* missing ones and removes the surplus.  With the same number of elements
\* the geometry is set through a new transition, and a transition that starts
\* on an element ends the older one there.
renderColumns(columnsData, old, duration) ==
    [ k \in 1 .. Len(columnsData) |->
        IF k <= Len(old)
        THEN [ datum |-> columnsData[k],
               opacity |-> old[k].opacity,
               pending |-> IF animated(duration) /\ Len(old) = Len(columnsData)
                           THEN NoTransition
                           ELSE old[k].pending ]
        ELSE [ datum |-> columnsData[k],
               opacity |-> MaxOpacity,
               pending |-> NoTransition ] ]

\* The display attribute of a label: "shown" is null, no attribute.
labelDisplay(label, cur) ==
    LET leftBorder == R(0)
        rightBorder == R(cur.right)
        x == RAdd(R(label.x), label.dx)
    IN  IF RLt(leftBorder, x) /\ RLt(RAdd(x, label.width), rightBorder)
        THEN "shown"
        ELSE "none"

\* A variant that shows the labels whatever their height.
labelsOpacityAnyHeight(columnsData, settings, hColumn) ==
    IF ~ settings.showLabels THEN MinOpacity ELSE MaxOpacity

\* The opacity renderLabels gives to every label.
labelsOpacity(columnsData, settings, hColumn) ==
    LET height == IF Len(columnsData) > 0 THEN columnsData[1].label.height ELSE 0
    IN  IF ~ settings.showLabels \/ RLt(hColumn, R(height))
        THEN MinOpacity
        ELSE MaxOpacity

\* setOpacity(element, opacityValue) on one element e.
setOpacity(e, opacityValue, duration) ==
    IF animated(duration)
    THEN [ e EXCEPT !.pending = opacityValue ]
    ELSE [ e EXCEPT !.opacity = opacityValue ]

\* A variant that makes no element for a label whose display is none.
renderLabelsShownOnly(labelsData, opacityValue, old, duration) ==
    LET isShown(l) == l.display = "shown"
        shown == SelectSeq(labelsData, isShown)
    IN  [ k \in 1 .. Len(shown) |->
            [ datum |-> shown[k].datum,
              display |-> shown[k].display,
              opacity |-> opacityValue,
              pending |-> NoTransition ] ]

\* labelsData[k] is the datum and the display attribute of label k.
renderLabels(labelsData, opacityValue, old, duration) ==
    [ k \in 1 .. Len(labelsData) |->
        setOpacity(
            [ datum |-> labelsData[k].datum,
              display |-> labelsData[k].display,
              opacity |-> IF k <= Len(old) THEN old[k].opacity ELSE MaxOpacity,
              pending |-> IF k <= Len(old) THEN old[k].pending ELSE NoTransition ],
            opacityValue, duration) ]

generateAxesData(wRight, vp) ==
    << [ x1 |-> RDiv(wRight, R(2)), y1 |-> 0,
         x2 |-> RDiv(wRight, R(2)), y2 |-> vp.height ] >>

\* A variant that draws the axis whatever the number of series.
renderAxesAlways(model, wRight, vp) == generateAxesData(wRight, vp)

renderAxes(model, wRight, vp) ==
    IF Len(model.series) # MaxSeries THEN << >> ELSE generateAxesData(wRight, vp)

\* A category name is one character long.
renderCategories(model, hColumn, wLeft, font) ==
    IF ~ model.settings.showCategories
    THEN << >>
    ELSE [ k \in 1 .. Len(model.categories) |->
             [ category |-> model.categories[k],
               fill |-> model.settings.categoriesFillColour,
               chars |-> IF RLe(R(measureSvgTextWidth(1, font)), wLeft)
                         THEN 1 ELSE 0,
               shift |-> RSub(RAdd(RAdd(RMul(RAdd(hColumn, R(columnPadding)),
                                              R(k - 1)),
                                         RDiv(hColumn, R(2))),
                                   RDiv(R(font.height), R(2))),
                              R(InnerTextHeightDelta)) ] ]

\* --------------------------------------------------------------- update ----
\* What update computes from a model that is not null: the sections, the
\* viewport, the row height and the data of every layer.  It is a function
\* of the model, the viewport, the legend's height, this.sections,
\* currentSections.isPercent and the font.
layout(model, vp0, legendHeight, secs, isPercent, font) ==
    LET cur == updateSections(Some(model), secs, [ isPercent |-> isPercent ], vp0)
        wLeft == getValueByPercent(cur.left, vp0.width, cur.isPercent)
        wRight == getValueByPercent(cur.right, vp0.width, cur.isPercent)
        vp1 == [ vp0 EXCEPT !.height = @ - legendHeight ]
        hColumn == computeHeightColumn(model, vp1)
        columnsData == generateColumnDataBySeries(model, wRight, hColumn, font)
    IN  [ currentSections |-> cur,
          widthLeftSection |-> wLeft,
          widthRightSection |-> wRight,
          viewport |-> vp1,
          heightColumn |-> hColumn,
          columnsData |-> columnsData,
          labelsData |-> [ k \in 1 .. Len(columnsData) |->
                            [ datum |-> columnsData[k].label,
                              display |-> labelDisplay(columnsData[k].label, cur) ] ],
          labelsOpacity |-> labelsOpacity(columnsData, model.settings, hColumn),
          axes |-> renderAxes(model, wRight, vp1),
          categories |-> renderCategories(model, hColumn, wLeft, font) ]

\* update(visualUpdateOptions).  o.dataViews0 is dataViews[0] (Null when
\* absent), o.viewport the host's viewport, o.duration what
\* getAnimationDuration returns and o.legendHeight what the legend reports;
\* ret is converter(o.dataViews0) and lay the layout of its model.
UpdateWith(o, ret, lay) ==
    IF o.dataViews0 = Null
    THEN UNCHANGED vars
    ELSE
        /\ dataView' = o.dataViews0
        /\ durationAnimations' = o.duration
        /\ visualUpdateOptions' = o
        /\ converterCall' = [ called |-> TRUE, arg |-> o.dataViews0, ret |-> ret ]
        /\ UNCHANGED << sections, textOptions, isSelectColumn, clickedIndex >>
        /\ IF ret.threw
           THEN UNCHANGED << currentSections, viewport, tornadoChartDataView,
                             heightColumn, widthLeftSection, widthRightSection,
                             columns, labels, axes, categories,
                             selectSecondSeries >>
           ELSE /\ tornadoChartDataView' = ret.value
                /\ IF ret.value = Null
                   THEN LET vp0 == setSize(o.viewport)
                            cur == updateSections(Null, sections,
                                                  currentSections, vp0)
                        IN  /\ viewport' = vp0
                            /\ currentSections' = cur
                            /\ widthLeftSection' =
                                   getValueByPercent(cur.left, vp0.width,
                                                     cur.isPercent)
                            /\ widthRightSection' =
                                   getValueByPercent(cur.right, vp0.width,
                                                     cur.isPercent)
                            /\ UNCHANGED << heightColumn, columns, labels, axes,
                                            categories, selectSecondSeries >>
                   ELSE /\ viewport' = lay.viewport
                        /\ currentSections' = lay.currentSections
                        /\ widthLeftSection' = lay.widthLeftSection
                        /\ widthRightSection' = lay.widthRightSection
                        /\ heightColumn' = lay.heightColumn
                        /\ columns' = renderColumns(lay.columnsData, columns,
                                                    o.duration)
                        /\ selectSecondSeries' =
                               (Len(ret.value[1].series) = 2)
                        /\ labels' = renderLabels(lay.labelsData,
                                                  lay.labelsOpacity, labels,
                                                  o.duration)
                        /\ axes' = lay.axes
                        /\ categories' = lay.categories

Update(o) ==
    LET ret == converter(o.dataViews0)
    IN  UpdateWith(o, ret,
                   layout(ret.value[1], setSize(o.viewport), o.legendHeight,
                          sections, currentSections.isPercent, textOptions))

\* ------------------------------------------------------------ selection ----
\* A variant that finds the partner of a first-series bar only.
mirrorIndexForwardOnly(currentIndexOfColumn, quantityOfColumns, secondSeries) ==
    LET shift == quantityOfColumns \div 2
    IN  IF secondSeries /\ currentIndexOfColumn < shift
        THEN currentIndexOfColumn + shift
        ELSE currentIndexOfColumn

\* A variant that highlights the next bar of the list beside the clicked one.
mirrorIndexNextColumn(currentIndexOfColumn, quantityOfColumns, secondSeries) ==
    IF secondSeries
    THEN (currentIndexOfColumn + 1) % quantityOfColumns
    ELSE currentIndexOfColumn

\* The index setSelection highlights beside the clicked one (0-based).
mirrorIndex(currentIndexOfColumn, quantityOfColumns, secondSeries) ==
    LET shift == quantityOfColumns \div 2
    IN  IF secondSeries
        THEN IF currentIndexOfColumn < shift
             THEN currentIndexOfColumn + shift
             ELSE currentIndexOfColumn - shift
        ELSE currentIndexOfColumn

\* The filter of setSelection keeps the columns for which
\*   item !== columnElements[index] || item !== columnElements[current].
\* d3 passes the bound datum as item and columnElements holds the nodes, so
\* no item is identical to either node.
isDimmedFirst(k, index, currentIndexOfColumn) ==
    LET itemIsNodeAtIndex == FALSE
        itemIsNodeAtCurrent == FALSE
    IN  ~ itemIsNodeAtIndex \/ ~ itemIsNodeAtCurrent

\* The columns after setSelection(currentIndexOfColumn, columns, secondSeries).
setSelection(currentIndexOfColumn, cols, secondSeries, duration) ==
    LET index == mirrorIndex(currentIndexOfColumn, Len(cols), secondSeries)
        dimmed == [ k \in 1 .. Len(cols) |->
                      IF isDimmedFirst(k - 1, index, currentIndexOfColumn)
                      THEN setOpacity(cols[k], MinColumnOpacity, duration)
                      ELSE cols[k] ]
        first == [ k \in 1 .. Len(cols) |->
                     IF k - 1 = currentIndexOfColumn
                     THEN setOpacity(dimmed[k], MaxOpacity, duration)
                     ELSE dimmed[k] ]
    IN  [ k \in 1 .. Len(cols) |->
            IF secondSeries /\ k - 1 = index
            THEN setOpacity(first[k], MaxOpacity, duration)
            ELSE first[k] ]

\* The click handler of the column at 0-based index i.
ColumnClick(i) ==
    /\ i \in 0 .. Len(columns) - 1
    /\ columns' = setSelection(i, columns, selectSecondSeries, durationAnimations)
    /\ isSelectColumn' = TRUE
    /\ clickedIndex' = i
    /\ UNCHANGED << sections, currentSections, textOptions, viewport, dataView,
                    tornadoChartDataView, heightColumn, widthLeftSection,
                    widthRightSection, durationAnimations, labels, axes,
                    categories, selectSecondSeries, visualUpdateOptions,
                    converterCall >>

\* The click handler of the document (a click outside every column), which
\* renderColumns registers: setOpacity(..., MaxOpacity, disableAnimation = true).
\* Before the first render there is no handler and isSelectColumn is false.
BackgroundClick ==
    /\ IF isSelectColumn
       THEN /\ columns' = [ k \in 1 .. Len(columns) |->
                              setOpacity(columns[k], MaxOpacity, 0) ]
            /\ isSelectColumn' = FALSE
            /\ clickedIndex' = -1
       ELSE UNCHANGED << columns, isSelectColumn, clickedIndex >>
    /\ UNCHANGED << sections, currentSections, textOptions, viewport, dataView,
                    tornadoChartDataView, heightColumn, widthLeftSection,
                    widthRightSection, durationAnimations, labels, axes,
                    categories, selectSecondSeries, visualUpdateOptions,
                    converterCall >>

\* ---------------------------------------------------------- transitions ----
\* A transition scheduled on an element is modelled by its last frame: until
\* then the style keeps its value, and a transition that is ended early
\* leaves the style as it is.
lastFrame(e) ==
    IF e.pending # NoTransition
    THEN [ e EXCEPT !.opacity = e.pending, !.pending = NoTransition ]
    ELSE e

hasTransition(layer) == \E k \in 1 .. Len(layer) : layer[k].pending # NoTransition

ColumnsTransitionEnd ==
    /\ hasTransition(columns)
    /\ columns' = [ k \in 1 .. Len(columns) |-> lastFrame(columns[k]) ]
    /\ UNCHANGED << sections, currentSections, textOptions, viewport, dataView,
                    tornadoChartDataView, heightColumn, widthLeftSection,
                    widthRightSection, isSelectColumn, durationAnimations,
                    labels, axes, categories, selectSecondSeries,
                    visualUpdateOptions, converterCall, clickedIndex >>

LabelsTransitionEnd ==
    /\ hasTransition(labels)
    /\ labels' = [ k \in 1 .. Len(labels) |-> lastFrame(labels[k]) ]
    /\ UNCHANGED << sections, currentSections, textOptions, viewport, dataView,
                    tornadoChartDataView, heightColumn, widthLeftSection,
                    widthRightSection, isSelectColumn, durationAnimations,
                    columns, axes, categories, selectSecondSeries,
                    visualUpdateOptions, converterCall, clickedIndex >>

\* A direct call of the public converter: a pure function of its argument.
ConverterCall(dv) ==
    /\ converterCall' = [ called |-> TRUE, arg |-> dv, ret |-> converter(dv) ]
    /\ UNCHANGED << sections, currentSections, textOptions, viewport, dataView,
                    tornadoChartDataView, heightColumn, widthLeftSection,
                    widthRightSection, isSelectColumn, durationAnimations,
                    columns, labels, axes, categories, selectSecondSeries,
                    visualUpdateOptions, clickedIndex >>

\* ----------------------------------------------------------- the inputs ----
CategoryNames == << "A", "B", "C", "D", "E", "F" >>
SeriesNames == << "S1", "S2", "S3", "S4", "S5" >>

Objects(showLabels, showCategories) ==
    [ showLabels |-> showLabels, showCategories |-> showCategories,
      showLegend |-> DefaultTornadoChartSettings.showLegend,
      precision |-> DefaultTornadoChartSettings.precision ]

\* A well-formed data view: columns is a sequence of value sequences, each as
\* long as the category column.
DataViewOf(n, cols, objects) ==
    [ hasCategorical |-> TRUE, categories |-> "present", hasSource |-> TRUE,
      categoryValues |-> [ k \in 1 .. n |-> CategoryNames[k] ],
      values |-> "present",
      columns |-> [ j \in 1 .. Len(cols) |->
                      [ displayName |-> SeriesNames[j], values |-> cols[j] ] ],
      objects |-> objects ]

\* The data views with a part missing.
Malformed(d) ==
    { [ d EXCEPT !.hasCategorical = FALSE ],
      [ d EXCEPT !.categories = "absent" ],
      [ d EXCEPT !.categories = "empty" ],
      [ d EXCEPT !.hasSource = FALSE ],
      [ d EXCEPT !.values = "absent" ],
      [ d EXCEPT !.columns = << >> ] }

\* Every sequence of 1 .. maxColumns columns over n categories, each column
\* one value of valueSet repeated.
ConstantColumnsOver(n, valueSet, maxColumns) ==
    { [ j \in 1 .. Len(vs) |-> [ k \in 1 .. n |-> vs[j] ] ] :
        vs \in UNION { [ 1 .. c -> valueSet ] : c \in 1 .. maxColumns } }

\* Every sequence of 1 .. maxColumns value columns over n categories.
ColumnsOver(n, valueSet, maxColumns) ==
    UNION { [ 1 .. c -> [ 1 .. n -> valueSet ] ] : c \in 1 .. maxColumns }

\* The value of category k in column j of the data the interaction
\* specification draws: 3, -1, ... in the first column, 2, 4, ... in the second.
PatternValue(j, k) == IF j = 1 THEN 3 - 4 * (k - 1) ELSE 2 * k

PatternColumns(n, c) == [ j \in 1 .. c |-> [ k \in 1 .. n |-> PatternValue(j, k) ] ]

\* The values SpecLayout draws the series from.
LayoutValues == { - MaxValue, 0, 1, MaxValue }

Wide == [ width |-> 400, height |-> 200 ]
Low == [ width |-> 400, height |-> 40 ]
Narrow == [ width |-> 60, height |-> 200 ]
Flat == [ width |-> 400, height |-> 25 ]

Durations == { 0, 250 }

DefaultSections == [ left |-> 75, right |-> 0, isPercent |-> FALSE ]

\* The sections of the constructor's options.
SectionConfigs ==
    { DefaultSections, [ left |-> 25, right |-> 0, isPercent |-> TRUE ] }

\* Constructor options that also configure a right section.
RightSectionConfigs ==
    SectionConfigs
      \cup { [ left |-> 75, right |-> 40, isPercent |-> FALSE ],
             [ left |-> 25, right |-> 40, isPercent |-> TRUE ] }

Fonts == { [ charWidth |-> 7, height |-> 14 ] }

Options(dataViews, viewports, durations, legendHeights) ==
    { [ dataViews0 |-> Some(d), viewport |-> vp, duration |-> t,
        legendHeight |-> h ] :
        d \in dataViews, vp \in viewports, t \in durations,
        h \in legendHeights }

PatternDataViews(categoryCounts, showLabelsSet, showCategoriesSet) ==
    { DataViewOf(n, PatternColumns(n, c), Objects(l, s)) :
        n \in categoryCounts, c \in 1 .. MaxSeries,
        l \in showLabelsSet, s \in showCategoriesSet }

BaseDataView == DataViewOf(1, PatternColumns(1, 1), Objects(TRUE, TRUE))

\* An update without a data view.
NoDataView ==
    [ dataViews0 |-> Null, viewport |-> Wide, duration |-> 0, legendHeight |-> 0 ]

\* Spec: updates of the shape of the data (one category or MaxCategories,
\* one series or two), clicks and transitions.
SelectionOptions ==
    { NoDataView } \cup
    Options(PatternDataViews({ 1, MaxCategories }, { TRUE }, { TRUE })
              \cup { [ BaseDataView EXCEPT !.categories = "absent" ],
                     [ BaseDataView EXCEPT !.columns = << >> ] },
            { Wide }, Durations, { 0 })

\* SpecRender: sequences of updates of the data, the settings and the size.
RenderOptions ==
    { NoDataView } \cup
    Options(PatternDataViews(0 .. MaxCategories, BOOLEAN, BOOLEAN)
              \cup { [ BaseDataView EXCEPT !.categories = "absent" ] },
            { Wide, Low }, Durations, { 0 })

\* The data of the worked example: categories A and B, series [10, -5] and
\* [20, 15], default settings.
ExampleDataView ==
    DataViewOf(2, << << 10, -5 >>, << 20, 15 >> >>, Objects(TRUE, TRUE))

\* SpecLayout: one update of a new visual, with every series over
\* LayoutValues in the wide viewport, and with the pattern data in every
\* viewport, with and without the categories and the legend.
LayoutOptions(maxCategories) ==
    Options(UNION { { DataViewOf(n, cols, Objects(TRUE, TRUE)) :
                        cols \in ColumnsOver(n, LayoutValues, MaxSeries) } :
                    n \in 0 .. maxCategories },
            { Wide }, { 0 }, { 0 })
      \cup Options(PatternDataViews(0 .. maxCategories, { TRUE }, BOOLEAN),
                   { Wide, Low, Narrow, Flat }, { 0 }, { 0, 30 })
      \cup Options({ ExampleDataView }, { Wide }, { 0 }, { 0, 30 })

\* SpecConverter: the arguments of a direct call.
ConverterArgs(maxCategories) ==
    LET valid == UNION { { DataViewOf(n, cols, Objects(TRUE, TRUE)) :
                             cols \in ConstantColumnsOver(n, { 0, MaxValue },
                                                          MaxValueColumns) } :
                         n \in 0 .. maxCategories }
    IN  { Null } \cup { Some(d) : d \in valid }
               \cup { Some(m) : m \in UNION { Malformed(d) : d \in valid } }

\* The conversions and layouts of the options of Spec and SpecRender,
\* tabulated: f @@ << >> is the function f as a table.
TabulatedOptions == SelectionOptions \cup RenderOptions

ConverterTable ==
    [ o \in TabulatedOptions |-> converter(o.dataViews0) ] @@ << >>

LayoutKeys ==
    { o \in TabulatedOptions : ConverterTable[o].value # Null }
        \X SectionConfigs \X BOOLEAN \X Fonts

LayoutTable ==
    [ key \in LayoutKeys |->
        layout(ConverterTable[key[1]].value[1], setSize(key[1].viewport),
               key[1].legendHeight, key[2], key[3], key[4]) ] @@ << >>

\* Update(o) for a tabulated option.
UpdateTabulated(o) ==
    LET key == << o, sections, currentSections.isPercent, textOptions >>
    IN  UpdateWith(o, ConverterTable[o], LayoutTable[key])

\* ------------------------------------------------------ specifications ----
InitWith(sectionConfigs) ==
    /\ sections \in sectionConfigs
    /\ currentSections = sections
    /\ textOptions \in Fonts
    /\ viewport = [ height |-> 0, width |-> 0 ]
    /\ dataView = Null
    /\ tornadoChartDataView = Null
    /\ heightColumn = R(0)
    /\ widthLeftSection = R(0)
    /\ widthRightSection = R(0)
    /\ isSelectColumn = FALSE
    /\ durationAnimations = InitialDuration
    /\ columns = << >>
    /\ labels = << >>
    /\ axes = << >>
    /\ categories = << >>
    /\ selectSecondSeries = FALSE
    /\ visualUpdateOptions = [ dataViews0 |-> Null,
                               viewport |-> [ width |-> 0, height |-> 0 ],
                               duration |-> 0, legendHeight |-> 0 ]
    /\ converterCall = [ called |-> FALSE, arg |-> Null, ret |-> Returned(Null) ]
    /\ clickedIndex = -1

Init == InitWith(SectionConfigs)

\* A visual constructed without options.
InitDefault == InitWith({ DefaultSections })

UpdateEvent == \E o \in SelectionOptions : UpdateTabulated(o)

ColumnClickEvent == \E i \in 0 .. Len(columns) - 1 : ColumnClick(i)

Next ==
    \/ UpdateEvent
    \/ ColumnClickEvent
    \/ BackgroundClick
    \/ ColumnsTransitionEnd
    \/ LabelsTransitionEnd

Spec == InitDefault /\ [][Next]_vars

RenderEvent == \E o \in RenderOptions : UpdateTabulated(o)

NextRender ==
    \/ RenderEvent
    \/ LabelsTransitionEnd

SpecRender == Init /\ [][NextRender]_vars

\* The first update of a new visual.
FirstUpdate ==
    /\ dataView = Null
    /\ \E o \in LayoutOptions(MaxCategories) : Update(o)

SpecLayout == Init /\ [][FirstUpdate]_vars

\* The first call of the converter of a new visual.
ConverterEvent ==
    /\ ~ converterCall.called
    /\ \E dv \in ConverterArgs(MaxCategories) : ConverterCall(dv)

SpecConverter == Init /\ [][ConverterEvent]_vars

\* The first update of a visual constructed with any of the section options,
\* a configured right section included.
InitSections == InitWith(RightSectionConfigs)

SpecSections == InitSections /\ [][FirstUpdate]_vars

\* =============================================================== claims ====
\* The 0-based indexes of the columns whose fill-opacity is MaxOpacity.
fullOpacityColumns ==
    { k \in 0 .. Len(columns) - 1 : columns[k + 1].opacity = MaxOpacity }

\* The width of the region of one series in the rendered chart.
regionWidth ==
    IF selectSecondSeries
    THEN RDiv(widthRightSection, R(MaxSeries))
    ELSE widthRightSection

\* C1: after an update that renders, the width of every bar is at least 0
\* and at most the width of its series' region, and it is the whole region's
\* width when the least and the greatest value coincide; for every viewport
\* size and section configuration.
C1_BarWidthWithinRegion ==
    (converterCall.called /\ tornadoChartDataView # Null) =>
        \A k \in 1 .. Len(columns) :
            LET d == columns[k].datum
            IN  /\ RLe(R(0), d.width)
                /\ RLe(d.width, regionWidth)
                /\ (d.minValue = d.maxValue => d.width = regionWidth)

\* C2: while a column is selected (a click on bar i, then any updates) and
\* no opacity transition is in flight, the bars at full opacity are exactly
\* bar i and, with two series, its mirror; every other bar is at the reduced
\* opacity.
C2_SelectedPairAloneAtFullOpacity ==
    (/\ isSelectColumn
     /\ clickedIndex \in 0 .. Len(columns) - 1
     /\ ~ hasTransition(columns)) =>
        LET half == Len(columns) \div 2
            mirror == IF clickedIndex < half
                      THEN clickedIndex + half
                      ELSE clickedIndex - half
            pair == IF selectSecondSeries
                    THEN { clickedIndex, mirror }
                    ELSE { clickedIndex }
        IN  \A k \in 0 .. Len(columns) - 1 :
                columns[k + 1].opacity =
                    IF k \in pair THEN MaxOpacity ELSE MinColumnOpacity

\* C3: in every reachable state in which no column is selected, every bar is
\* at full opacity.
C3_UnselectedBarsAtFullOpacity ==
    ~ isSelectColumn =>
        fullOpacityColumns = 0 .. Len(columns) - 1

\* The opacity the last setOpacity gave to element e: the end of the
\* transition it scheduled, or the style it set when nothing is animated.
opacityGiven(e, duration) ==
    IF animated(duration) THEN e.pending ELSE e.opacity

\* The columns a click leaves highlighted.
highlighted(cols, duration) ==
    { k \in 0 .. Len(cols) - 1 : opacityGiven(cols[k + 1], duration) = MaxOpacity }

\* C4: in a chart of two series a click on bar i highlights exactly bar i
\* and bar i + half (i < half) or i - half (otherwise), half being half the
\* number of bars; taking the mirror twice gives i back, and a click on the
\* mirror highlights the same pair.
C4_ClickHighlightsMirrorPair ==
    [][ (isSelectColumn' /\ selectSecondSeries /\ ColumnClick(clickedIndex')) =>
              LET i == clickedIndex'
                  half == Len(columns) \div 2
                  mirror(j) == IF j < half THEN j + half ELSE j - half
              IN  /\ mirror(i) \in 0 .. Len(columns) - 1
                  /\ mirror(i) # i
                  /\ mirror(mirror(i)) = i
                  /\ highlighted(columns', durationAnimations)
                         = { i, mirror(i) }
                  /\ highlighted(setSelection(mirror(i), columns, TRUE,
                                              durationAnimations),
                                 durationAnimations)
                         = { i, mirror(i) } ]_vars

\* C4 witness: bar 3 of four was clicked without animation, and bars 1 and 3
\* alone are at full opacity.
C4_Witness ==
    /\ isSelectColumn
    /\ selectSecondSeries
    /\ Len(columns) = 4
    /\ clickedIndex = 3
    /\ ~ hasTransition(columns)
    /\ fullOpacityColumns = { 1, 3 }

\* The data views the converter has to answer with null: no data view, no
\* categorical section, no category column, no source of the category
\* column, or no values (absent or an empty list).
isMissing(dv) ==
    \/ dv = Null
    \/ ~ dv[1].hasCategorical
    \/ dv[1].categories # "present"
    \/ ~ dv[1].hasSource
    \/ dv[1].values = "absent"
    \/ dv[1].values = "present" /\ dv[1].columns = << >>

\* C5: for each of these data views the converter returns null and raises
\* no error.
C5_ConverterNullOnMissingInput ==
    (converterCall.called /\ isMissing(converterCall.arg)) =>
        converterCall.ret = Returned(Null)

\* C6: after an update whose model is null nothing is rendered and the
\* layers are empty.
C6_NullModelClearsLayers ==
    (converterCall.called /\ ~ converterCall.ret.threw
     /\ tornadoChartDataView = Null) =>
        /\ columns = << >>
        /\ labels = << >>
        /\ axes = << >>
        /\ categories = << >>

\* The categories of the model of the last update.
modelCategories == tornadoChartDataView[1].categories

\* The series of the model of the last update.
modelSeries == tornadoChartDataView[1].series

\* Every value of every series of the model.
allValues ==
    { modelSeries[j].values[k] :
        j \in 1 .. Len(modelSeries), k \in 1 .. Len(modelCategories) }

\* C7: with n >= 1 categories, n row heights and n - 1 paddings of
\* columnPadding add up to the chart's height: the host's viewport height
\* less the top and bottom margins and the height the legend reports.
C7_RowsFillChartHeight ==
    (/\ converterCall.called
     /\ tornadoChartDataView # Null
     /\ Len(modelCategories) >= 1) =>
        LET n == Len(modelCategories)
            chartHeight == visualUpdateOptions.viewport.height
                             - MarginTop - MarginBottom
                             - visualUpdateOptions.legendHeight
        IN  RAdd(RMul(heightColumn, R(n)), R(columnPadding * (n - 1)))
                = R(chartHeight)

\* C7 witness: two rows fill what a legend of some height leaves.
C7_Witness ==
    /\ tornadoChartDataView # Null
    /\ Len(modelCategories) = 2
    /\ visualUpdateOptions.legendHeight > 0
    /\ RLt(R(0), heightColumn)
    /\ Len(columns) >= 2

\* C8: the minValue that scales the bars is the least of 0 and all values of
\* all series, the maxValue the greatest of all values; minValue <= 0, and
\* the bars of both series are scaled with the same pair.
C8_SharedValueRange ==
    (converterCall.called /\ tornadoChartDataView # Null) =>
        \A k \in 1 .. Len(columns) :
            LET d == columns[k].datum
            IN  /\ d.minValue \in allValues \cup { 0 }
                /\ \A v \in allValues \cup { 0 } : d.minValue <= v
                /\ d.maxValue \in allValues
                /\ \A v \in allValues : v <= d.maxValue
                /\ d.minValue <= 0
                /\ d.minValue = columns[1].datum.minValue
                /\ d.maxValue = columns[1].datum.maxValue
                /\ d.maxValue # d.minValue =>
                       RMul(d.width, R(d.maxValue - d.minValue))
                           = RMul(regionWidth, R(d.label.source - d.minValue))

\* C8 witness: two series, the least value and the greatest one both in the
\* second, and the first series has no value below 1.
C8_Witness ==
    /\ tornadoChartDataView # Null
    /\ Len(modelSeries) = 2
    /\ Len(columns) = 4
    /\ \A k \in 1 .. 2 : modelSeries[1].values[k] = 1
    /\ \E k \in 1 .. 2 : modelSeries[2].values[k] < 0
    /\ \E k \in 1 .. 2 : modelSeries[2].values[k] > 1
    /\ columns[1].datum.minValue < 0
    /\ columns[1].datum.maxValue > 1

\* C9: with one series whose values are all equal, every bar has the whole
\* width of the region.
C9_EqualValuesFillRegion ==
    (/\ converterCall.called
     /\ tornadoChartDataView # Null
     /\ Len(modelSeries) = 1
     /\ \A v, w \in allValues : v = w) =>
        \A k \in 1 .. Len(columns) :
            columns[k].datum.width = widthRightSection

\* C9 witness: one series, two equal positive values (minValue is 0 and is
\* not maxValue), two bars of the region's width.
C9_Witness ==
    /\ tornadoChartDataView # Null
    /\ Len(modelSeries) = 1
    /\ Len(columns) = 2
    /\ allValues = { MaxValue }
    /\ columns[1].datum.minValue = 0
    /\ RLt(R(0), widthRightSection)
    /\ \A k \in 1 .. 2 : columns[k].datum.width = widthRightSection

\* C10: an update that renders gives one opacity to all labels: MinOpacity
\* when showLabels is false or the height of some label exceeds the row
\* height, and MaxOpacity otherwise; it never hides some and shows others.
C10_LabelsAllOrNothing ==
    [][ (/\ UpdateTabulated(visualUpdateOptions')
         /\ visualUpdateOptions'.dataViews0 # Null
         /\ ~ converterCall'.ret.threw
         /\ tornadoChartDataView' # Null) =>
            LET settings == tornadoChartDataView'[1].settings
                hidden ==
                    \/ ~ settings.showLabels
                    \/ \E k \in 1 .. Len(labels') :
                           RLt(heightColumn', R(labels'[k].datum.height))
            IN  \A k \in 1 .. Len(labels') :
                    opacityGiven(labels'[k], visualUpdateOptions'.duration)
                        = IF hidden THEN MinOpacity ELSE MaxOpacity ]_vars

\* C10 witness: labels are asked for, the rows are lower than the text, and
\* both labels are hidden.
C10_Witness ==
    /\ tornadoChartDataView # Null
    /\ tornadoChartDataView[1].settings.showLabels
    /\ Len(labels) >= 2
    /\ ~ hasTransition(labels)
    /\ \A k \in 1 .. Len(labels) :
           /\ RLt(heightColumn, R(labels[k].datum.height))
           /\ labels[k].opacity = MinOpacity

\* The left edge of label e in the chart region.
labelLeft(e) == RAdd(R(e.datum.x), e.datum.dx)

\* The right edge of label e in the chart region.
labelRight(e) == RAdd(labelLeft(e), e.datum.width)

\* C11: a label is hidden when its horizontal extent leaves the chart region
\* [0, widthRightSection] (in pixels), and this rule does not hide a label
\* whose extent lies inside the region; with sections in pixels or percent.
C11_LabelClippedAtChartRegion ==
    (converterCall.called /\ tornadoChartDataView # Null) =>
        \A k \in 1 .. Len(labels) :
            LET e == labels[k]
            IN  /\ (RLt(labelLeft(e), R(0))
                      \/ RLt(widthRightSection, labelRight(e)))
                       => e.display = "none"
                /\ (RLt(R(0), labelLeft(e))
                      /\ RLt(labelRight(e), widthRightSection))
                       => e.display = "shown"

\* Column k (1-based) is a bar of the first of two series.
isMirroredBar(k) == selectSecondSeries /\ 2 * k <= Len(columns)

\* C12: a bar wider than its truncated label has the label centred inside it
\* in the inside colour; any other bar has the label outside in the outside
\* colour, leftLabelMargin left of a mirrored bar of the first series, and
\* leftLabelMargin right of any other bar.
C12_LabelInsideOrOutside ==
    (converterCall.called /\ tornadoChartDataView # Null) =>
        \A k \in 1 .. Len(columns) :
            LET d == columns[k].datum
                l == d.label
                settings == tornadoChartDataView[1].settings
            IN  IF RLt(l.width, d.width)
                THEN /\ RAdd(l.dx, RDiv(l.width, R(2)))
                            = RAdd(d.dx, RDiv(d.width, R(2)))
                     /\ l.colour = settings.labelInsideFillColour
                ELSE /\ l.colour = settings.labelOutsideFillColour
                     /\ IF isMirroredBar(k)
                        THEN RAdd(l.dx, l.width)
                                 = RSub(d.dx, R(leftLabelMargin))
                        ELSE l.dx = RAdd(RAdd(d.dx, d.width),
                                         R(leftLabelMargin))

\* C12 witness: a chart of two series with a label inside a bar, a label left
\* of a mirrored bar and a label right of a bar of the second series.
C12_Witness ==
    /\ tornadoChartDataView # Null
    /\ selectSecondSeries
    /\ \E k \in 1 .. Len(columns) :
           RLt(columns[k].datum.label.width, columns[k].datum.width)
    /\ \E k \in 1 .. Len(columns) :
           /\ isMirroredBar(k)
           /\ RLe(columns[k].datum.width, columns[k].datum.label.width)
           /\ RLt(columns[k].datum.label.dx, columns[k].datum.dx)
    /\ \E k \in 1 .. Len(columns) :
           /\ ~ isMirroredBar(k)
           /\ RLe(columns[k].datum.width, columns[k].datum.label.width)
           /\ RLt(columns[k].datum.dx, columns[k].datum.label.dx)

\* C13: every bar has exactly one label, shown or not: the labels are as many
\* as the bars, and label k is the one generated with bar k.
C13_OneLabelPerBar ==
    /\ Len(labels) = Len(columns)
    /\ \A k \in 1 .. Len(columns) : labels[k].datum = columns[k].datum.label

\* C13 witness: four bars and four labels, all of them made transparent and
\* one of them clipped as well.
C13_Witness ==
    /\ tornadoChartDataView # Null
    /\ Len(columns) = 4
    /\ Len(labels) = 4
    /\ \A k \in 1 .. 4 : labels[k].opacity = MinOpacity
    /\ \E k \in 1 .. 4 : labels[k].display = "none"

\* The settings of the model of the last update.
modelSettings == tornadoChartDataView[1].settings

\* C14: after an update whose settings have showCategories false the left
\* section is 0 wide, the right section is 100 (percent) or the viewport's
\* width less the margins (pixels), and there is no category element,
\* whatever the earlier updates showed.
C14_NoCategoriesNoLeftSection ==
    (/\ converterCall.called
     /\ tornadoChartDataView # Null
     /\ ~ modelSettings.showCategories) =>
        /\ currentSections.left = 0
        /\ widthLeftSection = R(0)
        /\ currentSections.right =
               IF currentSections.isPercent
               THEN MaxSizeSections
               ELSE visualUpdateOptions.viewport.width - MarginLeft - MarginRight
        /\ categories = << >>

\* C14 witness: two bars are rendered without the categories by a visual
\* whose left section is not 0.
C14_Witness ==
    /\ tornadoChartDataView # Null
    /\ ~ modelSettings.showCategories
    /\ sections.left > 0
    /\ Len(columns) >= 2
    /\ categories = << >>
    /\ widthLeftSection = R(0)

\* The chart's height for the last update: the host's viewport height less
\* the top and bottom margins and the legend's height.
chartHeight ==
    visualUpdateOptions.viewport.height - MarginTop - MarginBottom
        - visualUpdateOptions.legendHeight

\* C15: after any updates there is an axis line exactly when the model
\* rendered last has two series (selectSecondSeries), there is never more
\* than one, and the line an update draws is vertical at half the width of
\* the chart region, from 0 to the chart's height.
C15_AxisIffTwoSeries ==
    /\ Len(axes) <= 1
    /\ (Len(axes) = 1) <=> selectSecondSeries
    /\ (converterCall.called /\ tornadoChartDataView # Null) =>
           /\ (Len(axes) = 1) <=> (Len(modelSeries) = 2)
           /\ Len(axes) = 1 =>
                  /\ axes[1].x1 = RDiv(widthRightSection, R(2))
                  /\ axes[1].x2 = axes[1].x1
                  /\ axes[1].y1 = 0
                  /\ axes[1].y2 = chartHeight

\* C15 witness: one series is rendered without an axis by an update that is
\* not the first (a fade of an earlier, animated update is still scheduled
\* on the labels and the last update was not animated).
C15_Witness ==
    /\ tornadoChartDataView # Null
    /\ Len(modelSeries) = 1
    /\ Len(columns) >= 1
    /\ axes = << >>
    /\ hasTransition(labels)
    /\ durationAnimations = 0

\* What a new visual with the same sections and font renders on its first
\* update when given the options of the last update.
firstRender ==
    LayoutTable[<< visualUpdateOptions, sections, sections.isPercent,
                   textOptions >>]

\* C16: the column, label, axis and category geometry after an update is the
\* geometry a new visual renders from the same data, viewport and settings,
\* whatever updates came before: two updates with the same inputs give the
\* same geometry.
C16_UpdateHistoryIndependent ==
    (/\ converterCall.called
     /\ ~ converterCall.ret.threw
     /\ tornadoChartDataView # Null) =>
        /\ [ k \in 1 .. Len(columns) |-> columns[k].datum ]
               = firstRender.columnsData
        /\ [ k \in 1 .. Len(labels) |->
               [ datum |-> labels[k].datum, display |-> labels[k].display ] ]
               = firstRender.labelsData
        /\ axes = firstRender.axes
        /\ categories = firstRender.categories

\* C16 witness: two series over two categories are rendered with the
\* categories by an update that is not the first (an earlier, animated
\* update left its fade on the labels).
C16_Witness ==
    /\ tornadoChartDataView # Null
    /\ Len(modelSeries) = 2
    /\ Len(columns) = 4
    /\ Len(categories) = 2
    /\ Len(axes) = 1
    /\ durationAnimations = 0
    /\ hasTransition(labels)

\* Bar d is un-rotated and translated horizontally by dx.
isUnrotatedAt(d, dx) == d.angle = 0 /\ d.dx = dx

\* Bar d is turned by 180 degrees about its centre and translated by the
\* part of the region it leaves free.
isMirrored(d) ==
    /\ d.angle = 180
    /\ d.px = RDiv(d.width, R(2))
    /\ d.py = RDiv(d.height, R(2))
    /\ d.dx = RSub(regionWidth, d.width)

\* C17 as stated: with two series every bar of the first is mirrored; every
\* bar of the second, and every bar of the only series of a chart of one, is
\* un-rotated and translated by the width of the region.
C17_SoleSeriesOffsetByRegion ==
    (converterCall.called /\ tornadoChartDataView # Null) =>
        \A k \in 1 .. Len(columns) :
            IF isMirroredBar(k)
            THEN isMirrored(columns[k].datum)
            ELSE isUnrotatedAt(columns[k].datum, regionWidth)

\* C17 amended: with two series every bar of the first is mirrored and every
\* bar of the second is un-rotated and translated by the width of the
\* region; every bar of the only series of a chart of one is un-rotated and
\* not translated horizontally.
C17_Orientation ==
    (converterCall.called /\ tornadoChartDataView # Null) =>
        \A k \in 1 .. Len(columns) :
            IF isMirroredBar(k)
            THEN isMirrored(columns[k].datum)
            ELSE IF selectSecondSeries
                 THEN isUnrotatedAt(columns[k].datum, regionWidth)
                 ELSE isUnrotatedAt(columns[k].datum, R(0))

\* C17 witness: two series over two categories in a region that is not
\* empty, a bar of the first narrower than the region.
C17_Witness ==
    /\ tornadoChartDataView # Null
    /\ selectSecondSeries
    /\ Len(columns) = 4
    /\ RLt(R(0), regionWidth)
    /\ \E k \in 1 .. 2 :
           /\ RLt(columns[k].datum.width, regionWidth)
           /\ columns[k].datum.angle = 180
    /\ \A k \in 3 .. 4 : columns[k].datum.angle = 0

\* The last update is the worked example: the example's data in the 400 x 200
\* viewport, no legend height, default sections.
isExample ==
    /\ converterCall.called
    /\ visualUpdateOptions.dataViews0 = Some(ExampleDataView)
    /\ visualUpdateOptions.viewport = Wide
    /\ visualUpdateOptions.legendHeight = 0
    /\ sections = DefaultSections

\* Bars 1 and 2 (first series) are mirrored left of the axis, bars 3 and 4
\* (second series) un-rotated right of it, and the axis is at half the width
\* of the chart region: 305 / 2.
exampleSides ==
    /\ Len(columns) = 4
    /\ widthRightSection = R(305)
    /\ axes = << [ x1 |-> << 305, 2 >>, y1 |-> 0,
                   x2 |-> << 305, 2 >>, y2 |-> 180 ] >>
    /\ \A k \in 1 .. 2 :
           /\ columns[k].datum.angle = 180
           /\ RLe(R(0), columns[k].datum.dx)
           /\ RAdd(columns[k].datum.dx, columns[k].datum.width) = << 305, 2 >>
    /\ \A k \in 3 .. 4 :
           /\ columns[k].datum.angle = 0
           /\ columns[k].datum.dx = << 305, 2 >>
    /\ [ k \in 1 .. 4 |-> columns[k].datum.width ]
           = << << 183, 2 >>, R(0), << 305, 2 >>, R(122) >>

\* C18 as stated: the example yields two rows about 95 high (200 less the
\* padding, halved), the first series mirrored left of the axis, the second
\* right of it, the axis at half the chart region.
C18_ExampleRowsAbout95 ==
    isExample =>
        /\ RLe(R(94), heightColumn)
        /\ RLe(heightColumn, R(96))
        /\ exampleSides

\* C18 amended: the example yields two rows 85 high (200 less the top and
\* bottom margins and the padding, halved) and the same sides and axis.
C18_ExampleRows85 ==
    isExample =>
        /\ heightColumn = R(85)
        /\ \A k \in 1 .. Len(columns) : columns[k].datum.height = R(85)
        /\ [ k \in 1 .. Len(columns) |-> columns[k].datum.dy ]
               = << R(0), R(95), R(0), R(95) >>
        /\ exampleSides

\* C18 witness: the example has been rendered.
C18_Witness ==
    /\ isExample
    /\ tornadoChartDataView # Null
    /\ Len(columns) = 4
    /\ Len(categories) = 2
    /\ Len(axes) = 1

\* C19: an update, with a model or with missing data, changes neither
\* isSelectColumn nor the fill-opacity of a bar that is there before and
\* after it; isSelectColumn changes only in a click on a bar or on the
\* background.
C19_UpdateKeepsSelection ==
    [][ /\ UpdateTabulated(visualUpdateOptions') =>
               /\ isSelectColumn' = isSelectColumn
               /\ \A k \in 1 .. Min2(Len(columns), Len(columns')) :
                      columns'[k].opacity = columns[k].opacity
        /\ isSelectColumn' # isSelectColumn =>
               \/ BackgroundClick
               \/ \E i \in 0 .. Len(columns) - 1 : ColumnClick(i) ]_vars

\* C19 witness: bar 1 of two was clicked and a later update has left one
\* bar, still dimmed, with a column still selected.
C19_Witness ==
    /\ isSelectColumn
    /\ clickedIndex = 1
    /\ Len(columns) = 1
    /\ columns[1].opacity = MinColumnOpacity

\* The top of row i (0-based) in column datum terms: the dy of its bars.
rowTop(i) == RMul(RAdd(heightColumn, R(columnPadding)), R(i))

\* C20: after an update with a model, all rows have one height, which is not
\* negative; row i starts at i * (rowHeight + columnPadding), so consecutive
\* rows are columnPadding apart, in the order of the categories, without
\* overlap; and every row lies within [0, chartHeight].
C20_RowsStackedWithinChart ==
    (/\ converterCall.called
     /\ tornadoChartDataView # Null
     /\ Len(modelCategories) >= 1) =>
        LET n == Len(modelCategories)
        IN  /\ RLe(R(0), heightColumn)
            /\ \A k \in 1 .. Len(columns) :
                   LET d == columns[k].datum
                       i == (k - 1) % n
                   IN  /\ d.height = heightColumn
                       /\ d.dy = rowTop(i)
                       /\ RLe(R(0), d.dy)
                       /\ RLe(RAdd(d.dy, d.height), R(chartHeight))
            /\ \A i \in 1 .. n - 1 :
                   RSub(rowTop(i), RAdd(rowTop(i - 1), heightColumn))
                       = R(columnPadding)

\* The width update() leaves for the two sections: the host's viewport width
\* without the left and right margins.
innerViewportWidth ==
    visualUpdateOptions.viewport.width - MarginLeft - MarginRight

\* C21: after an update with a non-null model the pixel widths of the left and
\* right sections add up to the inner viewport width, for percent and pixel
\* sections, for both values of showCategories, and whatever right section
\* the constructor's options configured.
C21_SectionsFillViewport ==
    tornadoChartDataView # Null =>
        RAdd(widthLeftSection, widthRightSection) = R(innerViewportWidth)

\* C21 witness: percent sections with a configured right section, category
\* labels shown, after an update that drew a left section.
C21_Witness ==
    /\ tornadoChartDataView # Null
    /\ sections.isPercent
    /\ sections.right # 0
    /\ modelSettings.showCategories
    /\ RLt(R(0), widthLeftSection)
    /\ RAdd(widthLeftSection, widthRightSection) = R(innerViewportWidth)

\* The number of categories of the rendered chart of two series.
halfOfColumns == Len(columns) \div MaxSeries

\* The least and the greatest x of the rectangle of the bar of datum d.
barMin(d) == IF RLe(R(0), d.width) THEN d.dx ELSE RAdd(d.dx, d.width)

barMax(d) == IF RLe(R(0), d.width) THEN RAdd(d.dx, d.width) ELSE d.dx

Min2R(a, b) == IF RLe(a, b) THEN a ELSE b

Max2R(a, b) == IF RLe(a, b) THEN b ELSE a

\* C22: in a chart of two series, for every category the right edge
\* (dx + width) of the bar of the first series and the left edge (dx) of the
\* bar of the second series are both the x of the axis, halfOfColumns the chart
\* region's width, and the two bars share no more than that edge.
C22_BarsMeetAtAxis ==
    (tornadoChartDataView # Null /\ selectSecondSeries) =>
        /\ Len(axes) = 1
        /\ axes[1].x1 = RDiv(widthRightSection, R(2))
        /\ axes[1].x2 = axes[1].x1
        /\ \A c \in 1 .. halfOfColumns :
               LET first == columns[c].datum
                   second == columns[c + halfOfColumns].datum
               IN  /\ first.tooltipData.category = second.tooltipData.category
                   /\ RAdd(first.dx, first.width) = axes[1].x1
                   /\ second.dx = axes[1].x1
                   /\ RLe(Min2R(barMax(first), barMax(second)),
                          Max2R(barMin(first), barMin(second)))

\* C22 witness: two series and two categories whose bars have positive,
\* different widths on each side and meet at the axis.
C22_Witness ==
    /\ tornadoChartDataView # Null
    /\ selectSecondSeries
    /\ halfOfColumns = 2
    /\ Len(axes) = 1
    /\ \A k \in 1 .. Len(columns) : RLt(R(0), columns[k].datum.width)
    /\ columns[1].datum.width # columns[2].datum.width
    /\ columns[3].datum.width # columns[4].datum.width
    /\ columns[1].datum.width # columns[3].datum.width
    /\ RAdd(columns[1].datum.dx, columns[1].datum.width) = columns[3].datum.dx
    /\ columns[3].datum.dx = axes[1].x1

\* C23: in a chart of two series no label crosses the axis: the extent of
\* every label of the first series lies at or left of the axis x, the extent
\* of every label of the second series at or right of it, and a label placed
\* inside a bar lies within that bar's horizontal extent.
C23_LabelsKeepTheirSide ==
    (tornadoChartDataView # Null /\ selectSecondSeries) =>
        \A k \in 1 .. Len(columns) :
            LET d == columns[k].datum
                l == d.label
                left == RAdd(R(l.x), l.dx)
                right == RAdd(left, l.width)
                axis == RDiv(widthRightSection, R(2))
            IN  /\ IF isMirroredBar(k)
                   THEN RLe(left, axis) /\ RLe(right, axis)
                   ELSE RLe(axis, left) /\ RLe(axis, right)
                /\ RLt(l.width, d.width) =>
                       /\ RLe(d.dx, left)
                       /\ RLe(right, RAdd(d.dx, d.width))

\* C24: in a chart of two series the bar setSelection highlights together
\* with bar i is, for every index i a click can give, the bar of the same
\* category (same name, same row) in the other series.
C24_MirrorIsSameCategoryOtherSeries ==
    (tornadoChartDataView # Null /\ selectSecondSeries) =>
        \A i \in 0 .. Len(columns) - 1 :
            LET index == mirrorIndex(i, Len(columns), selectSecondSeries)
                clicked == columns[i + 1].datum
            IN  /\ index \in 0 .. Len(columns) - 1
                /\ LET partner == columns[index + 1].datum
                   IN  /\ partner.tooltipData.category
                              = clicked.tooltipData.category
                       /\ partner.dy = clicked.dy
                       /\ partner.tooltipData.series
                              # clicked.tooltipData.series
                       /\ (partner.angle = 180) # (clicked.angle = 180)

\* C24 witness: bar 3 of the four bars of two categories was clicked; it and
\* bar 1 are the bars of the second category, one in each series.
C24_Witness ==
    /\ tornadoChartDataView # Null
    /\ isSelectColumn
    /\ selectSecondSeries
    /\ Len(columns) = 4
    /\ clickedIndex = 3
    /\ mirrorIndex(clickedIndex, Len(columns), selectSecondSeries) = 1
    /\ columns[4].datum.tooltipData.category = modelCategories[2]
    /\ columns[2].datum.tooltipData.category = modelCategories[2]
    /\ columns[2].datum.tooltipData.series = modelSeries[1].name
    /\ columns[4].datum.tooltipData.series = modelSeries[2].name
    /\ modelCategories[1] # modelCategories[2]
    /\ modelSeries[1].name # modelSeries[2].name

\* C25: a background click that arrives while the opacity transitions of a
\* bar click are in flight still leaves every bar at full opacity once every
\* pending transition has settled: no settled state in which no column is
\* selected has a dimmed bar.
C25_ResetSurvivesPendingFade ==
    (~ isSelectColumn /\ ~ hasTransition(columns)) =>
        \A k \in 1 .. Len(columns) : columns[k].opacity = MaxOpacity
=============================================================================
